---- MODULE Spec2Model ----
(***************************************************************************)
(* Model of the window-manager policy core of rust_wm/src/entities.rs:     *)
(* IdGenerator, Window, Workspace, Monitor, Gesture and WindowManager.     *)
(*                                                                         *)
(* wm   is the WindowManager struct (its tables, generators, gesture and   *)
(*      focus fields).                                                     *)
(* call is the observation of the last call made on it: the operation, its *)
(*      argument, what it returned, the requests it made of the compositor *)
(*      and of the input inhibitor, and the target workspace as it was     *)
(*      when the call was entered.                                         *)
(* geo  is one Window's geometry: the bounds the compositor reports for    *)
(*      it, its cached size and the last size issued to the compositor.    *)
(* issued is the history of the ids handed out for windows, workspaces and *)
(*      monitors, in the order they were handed out.                       *)
(***************************************************************************)
EXTENDS Integers, Sequences, FiniteSets, TLC

VARIABLES wm, call, geo, issued

vars == <<wm, call, geo, issued>>

(* ------------------------------ bounds --------------------------------- *)
\* window ids issued in WindowSpec
MaxWindows == 2
\* window ids issued in PlacementSpec
MaxPlaced == 3
\* workspace ids, monitor ids and window ids issued in Spec and ReserveSpec
MaxWorkspaces == 3
MaxMonitors == 1
MaxOpen == 1
\* SizeSpec: the largest width, height or bound
MaxDim == 3
\* SwapSpec: the longest member list
MaxMembers == 4
\* LookupSpec: the ids that may be stored in a table or in a back-reference
MaxStored == 1

(* ------------------------------ Option<T> ------------------------------ *)
None == <<>>
Some(x) == <<x>>
IsSome(o) == o # <<>>
Unwrap(o) == o[1]

(* ------------------------------ Vec<Id> -------------------------------- *)
\* indices are 0-based as in the source; TLA+ sequences are 1-based
VecGet(v, i) == IF i >= 0 /\ i < Len(v) THEN Some(v[i + 1]) ELSE None
\* (as a slip would have it: the element before the last)
VecLast_before_last(v) == IF Len(v) > 1 THEN Some(v[Len(v) - 1]) ELSE None
VecLast(v) == IF Len(v) > 0 THEN Some(v[Len(v)]) ELSE None
VecInsert(v, i, x) == SubSeq(v, 1, i) \o <<x>> \o SubSeq(v, i + 1, Len(v))
VecRemove(v, i) == SubSeq(v, 1, i) \o SubSeq(v, i + 2, Len(v))
\* (as a slip would have it: the element at j is copied to i, not exchanged)
VecSwap_overwrite(v, i, j) == [k \in 1..Len(v) |-> IF k = i + 1 THEN v[j + 1] ELSE v[k]]
VecSwap(v, i, j) ==
  [k \in 1..Len(v) |-> IF k = i + 1 THEN v[j + 1] ELSE IF k = j + 1 THEN v[i + 1] ELSE v[k]]
VecFind(v, x) ==
  IF \E i \in 1..Len(v) : v[i] = x
  THEN Some((CHOOSE i \in 1..Len(v) : v[i] = x /\ \A j \in 1..(i - 1) : v[j] # x) - 1)
  ELSE None
Elems(v) == {v[i] : i \in 1..Len(v)}

(* ------------------------------ BTreeMap ------------------------------- *)
MapInsert(m, k, v) == [x \in DOMAIN m \cup {k} |-> IF x = k THEN v ELSE m[x]]
MapRemove(m, k) == [x \in DOMAIN m \ {k} |-> m[x]]
EmptyMap == [x \in {} |-> 0]

(* ------------------------------ IdGenerator ---------------------------- *)
IdGenerator_new == 1
\* (as a slip would have it: the counter is not incremented)
next_id_stuck(gen) == [id |-> gen, gen |-> gen]

\* next_id: returns the counter, then increments it
next_id(gen) == [id |-> gen, gen |-> gen + 1]

(* ------------------------------ Window --------------------------------- *)
\* what the compositor reports for a window (miral::WindowInfo)
WindowStates == {"restored", "fullscreen", "attached"}

Window_new(gen, workspace, info) ==
  LET n == next_id(gen)
  IN  [window |-> [id |-> n.id, workspace |-> workspace, info |-> info], gen |-> n.gen]

has_parent(window) == window.info.has_parent

\* (as a slip would have it: a fullscreen window still counts as tiled)
is_tiled_when_fullscreen(window) ==
  /\ window.info.name # "Ulauncher window title"
  /\ ~has_parent(window)
  /\ (window.info.type = "normal" \/ window.info.type = "freestyle")
  /\ window.info.state # "attached"

is_tiled(window) ==
  /\ window.info.name # "Ulauncher window title"
  /\ ~has_parent(window)
  /\ (window.info.type = "normal" \/ window.info.type = "freestyle")
  /\ window.info.state # "fullscreen"
  /\ window.info.state # "attached"

(* ------------------------------ Workspace ------------------------------ *)
Workspace_new(gen) ==
  LET n == next_id(gen)
  IN  [workspace |-> [id |-> n.id, on_monitor |-> None, windows |-> <<>>,
                      active_window |-> None],
       gen |-> n.gen]

\* get_tiled_windows calls get_window on every member, which aborts on a
\* member that is not in the window table
TiledAborts(workspace, m) == \E w \in Elems(workspace.windows) : w \notin DOMAIN m.windows

get_tiled_windows(workspace, m) ==
  SelectSeq(workspace.windows, LAMBDA w : is_tiled(m.windows[w]))

get_window_index(workspace, window) == VecFind(workspace.windows, window)

get_tiled_window_index(workspace, m, window) == VecFind(get_tiled_windows(workspace, m), window)

(* ------------------------------ Monitor -------------------------------- *)
Monitor_new(gen, workspace) ==
  LET n == next_id(gen)
  IN  [monitor |-> [id |-> n.id, workspace |-> workspace], gen |-> n.gen]

(* ------------------------------ Gesture -------------------------------- *)
GestureNone == [kind |-> "None"]
GestureOn(kind, window) == [kind |-> kind, window |-> window]

(* ------------------------------ WindowManager -------------------------- *)
\* the result of a call: the manager afterwards, how the call ended ("unit",
\* "Ok", "Err", "id", or "panic" for an abort) and the id it returned, if any
Result(m, ret, id) == [wm |-> m, ret |-> ret, id |-> id, requests |-> <<>>]
Panic(m) == Result(m, "panic", None)

\* what a call asks of its collaborators: select_active_window(tools, handle)
\* of the compositor (the null handle is None), focus_exclusive_client(self)
\* of the input inhibitor
SelectActiveWindow(window) == [request |-> "select_active_window", window |-> window]
FocusExclusiveClient == [request |-> "focus_exclusive_client", window |-> None]
Issuing(r, requests) == [r EXCEPT !.requests = requests]

\* the lookups: "ref" is the entity found (its id), "Some"/"None" an Option of
\* it, "panic" the abort of expect
get_window(m, window_id) ==
  IF window_id \in DOMAIN m.windows THEN Result(m, "ref", Some(window_id)) ELSE Panic(m)

get_workspace(m, workspace_id) ==
  IF workspace_id \in DOMAIN m.workspaces THEN Result(m, "ref", Some(workspace_id))
  ELSE Panic(m)

\* on_monitor.and_then(|monitor_id| self.monitors.get(&monitor_id)): None for no
\* stored id, and None as well for a stored id that is not a key of the table
monitor_by_workspace(m, workspace_id) ==
  IF get_workspace(m, workspace_id).ret = "panic" THEN Panic(m)
  ELSE LET on_monitor == m.workspaces[workspace_id].on_monitor
       IN  IF IsSome(on_monitor) /\ Unwrap(on_monitor) \in DOMAIN m.monitors
           THEN Result(m, "Some", on_monitor)
           ELSE Result(m, "None", None)

monitor_by_window(m, window_id) ==
  IF get_window(m, window_id).ret = "panic" THEN Panic(m)
  ELSE monitor_by_workspace(m, m.windows[window_id].workspace)

\* self.active_window.and_then(|id| self.windows.get(&id))
active_window(m) ==
  IF IsSome(m.active_window) /\ Unwrap(m.active_window) \in DOMAIN m.windows
  THEN Result(m, "Some", m.active_window)
  ELSE Result(m, "None", None)

active_workspace(m) ==
  IF m.active_workspace \in DOMAIN m.workspaces THEN Result(m, "ref", Some(m.active_workspace))
  ELSE Panic(m)

UnusedWorkspaces(m) == {k \in DOMAIN m.workspaces : m.workspaces[k].on_monitor = None}
\* (as a slip would have it: the last one found)
LastKey(S) == CHOOSE k \in S : \A j \in S : k >= j
\* BTreeMap::values iterates in key order
FirstKey(S) == CHOOSE k \in S : \A j \in S : k <= j

InsertNewWorkspace(m) ==
  LET n == Workspace_new(m.workspace_id_generator)
  IN  [m EXCEPT !.workspace_id_generator = n.gen,
                !.workspaces = MapInsert(m.workspaces, n.workspace.id, n.workspace)]

\* (as a slip would have it: the reserve is not topped up when one is found)
get_or_create_unused_workspace_no_reserve(m) ==
  LET unused_workspaces == UnusedWorkspaces(m)
  IN  IF unused_workspaces = {}
      THEN LET first_workspace_id == m.workspace_id_generator
           IN  Result(InsertNewWorkspace(InsertNewWorkspace(m)), "id", Some(first_workspace_id))
      ELSE Result(m, "id", Some(FirstKey(unused_workspaces)))

get_or_create_unused_workspace(m) ==
  LET unused_workspaces == UnusedWorkspaces(m)
  IN  IF unused_workspaces = {}
      THEN LET first_workspace_id == m.workspace_id_generator
           IN  Result(InsertNewWorkspace(InsertNewWorkspace(m)), "id", Some(first_workspace_id))
      ELSE LET first_workspace_id == FirstKey(unused_workspaces)
           IN  IF Cardinality(unused_workspaces) = 1
               THEN Result(InsertNewWorkspace(m), "id", Some(first_workspace_id))
               ELSE Result(m, "id", Some(first_workspace_id))

\* (as a slip would have it: only the workspace learns of the activation)
activate_window_in_workspace(m, window_id) ==
  IF window_id \notin DOMAIN m.windows THEN Panic(m)
  ELSE LET workspace_id == m.windows[window_id].workspace
       IN  IF workspace_id \notin DOMAIN m.workspaces THEN Panic(m)
           ELSE Result([m EXCEPT !.workspaces[workspace_id].active_window = Some(window_id)],
                       "unit", None)

activate_window(m, window_id) ==
  IF window_id \notin DOMAIN m.windows THEN Panic(m)
  ELSE LET workspace_id == m.windows[window_id].workspace
       IN  IF workspace_id \notin DOMAIN m.workspaces THEN Panic(m)
           ELSE Result([m EXCEPT !.workspaces[workspace_id].active_window = Some(window_id),
                                 !.active_window = Some(window_id),
                                 !.active_workspace = workspace_id],
                       "unit", None)

\* (as a slip would have it: always the successor)
NextTiledIndex_successor(tiled_index) == tiled_index + 1

\* the replacement chosen when the tiled active window at tiled_index leaves
NextTiledIndex(tiled_index) == IF tiled_index > 0 THEN tiled_index - 1 ELSE tiled_index + 1

remove_window_from_workspace(m, window) ==
  IF window \notin DOMAIN m.windows THEN Panic(m)
  ELSE IF m.windows[window].workspace \notin DOMAIN m.workspaces THEN Panic(m)
  ELSE
    LET workspace_id == m.windows[window].workspace
        workspace == m.workspaces[workspace_id]
        tiled == get_tiled_windows(workspace, m)
        WithActive(a) == [m EXCEPT !.workspaces[workspace_id].active_window = a]
        Finish(m1) ==
          LET raw_index == get_window_index(m1.workspaces[workspace_id], window)
          IN  IF raw_index = None THEN Result(m1, "Err", None)
              ELSE Result([m1 EXCEPT !.workspaces[workspace_id].windows =
                                        VecRemove(@, Unwrap(raw_index))],
                          "Ok", None)
    IN  IF workspace.active_window = Some(window)
        THEN IF TiledAborts(workspace, m) THEN Panic(m)
             ELSE IF is_tiled(m.windows[window])
             THEN LET tiled_index == get_tiled_window_index(workspace, m, window)
                  IN  IF tiled_index = None THEN Result(m, "Err", None)
                      ELSE Finish(WithActive(VecGet(tiled, NextTiledIndex(Unwrap(tiled_index)))))
             ELSE Finish(WithActive(VecLast(tiled)))
        ELSE Finish(m)

\* (as a slip would have it: the manager's active_window is left naming the window)
delete_window_keeps_focus(m, window_id) ==
  LET r == remove_window_from_workspace(m, window_id)
  IN  IF r.ret # "Ok" THEN Panic(m)
      ELSE Result([r.wm EXCEPT !.windows = MapRemove(@, window_id)], "unit", None)

delete_window(m, window_id) ==
  LET r == remove_window_from_workspace(m, window_id)
  IN  IF r.ret # "Ok" THEN Panic(m)
      ELSE LET m1 == [r.wm EXCEPT !.windows = MapRemove(@, window_id)]
           IN  Result(IF m1.active_window = Some(window_id)
                      THEN [m1 EXCEPT !.active_window = None]
                      ELSE m1,
                      "unit", None)

\* input_inhibitor::focus_exclusive_client: hands compositor focus to the
\* exclusive client; the manager's own fields are left as they are
focus_exclusive_client(m) == m

add_window(m, window, allowed) ==
  IF window.workspace \notin DOMAIN m.workspaces THEN Panic(m)
  ELSE
    LET workspace == m.workspaces[window.workspace]
        index == get_window_index(workspace, Unwrap(m.active_window))
        Register(members) ==
          LET m1 == [m EXCEPT !.workspaces[window.workspace].windows = members,
                              !.windows = MapInsert(@, window.id, window)]
          IN  IF ~has_parent(window)
              THEN IF allowed THEN activate_window(m1, window.id)
                   ELSE Issuing(Result(focus_exclusive_client(m1), "unit", None),
                                <<FocusExclusiveClient>>)
              ELSE Result(m1, "unit", None)
    IN  IF IsSome(m.active_window)
        THEN IF index = None THEN Panic(m)
             ELSE Register(VecInsert(workspace.windows, Unwrap(index) + 1, window.id))
        ELSE Register(Append(workspace.windows, window.id))

\* (as a slip would have it: the input inhibitor is not asked)
focus_window_unasked(m, window_id, allowed) ==
  LET m1 == [m EXCEPT !.active_window = window_id]
  IN  IF IsSome(window_id) /\ Unwrap(window_id) \notin DOMAIN m.windows THEN Panic(m)
      ELSE Issuing(Result(m1, "unit", None), <<SelectActiveWindow(window_id)>>)

focus_window(m, window_id, allowed) ==
  LET m1 == [m EXCEPT !.active_window = window_id]
  IN  IF IsSome(window_id)
      THEN IF Unwrap(window_id) \notin DOMAIN m.windows THEN Panic(m)
           ELSE IF allowed
                THEN Issuing(Result(m1, "unit", None), <<SelectActiveWindow(window_id)>>)
                ELSE Issuing(Result(focus_exclusive_client(m1), "unit", None),
                             <<FocusExclusiveClient>>)
      ELSE Issuing(Result(m1, "unit", None), <<SelectActiveWindow(None)>>)

\* swap_windows unwraps both indices: it aborts unless a and b are members
SwapAborts(workspace, a, b) ==
  get_window_index(workspace, a) = None \/ get_window_index(workspace, b) = None

swap_windows(workspace, a, b) ==
  LET a_raw_index == Unwrap(get_window_index(workspace, a))
      b_raw_index == Unwrap(get_window_index(workspace, b))
  IN  [workspace EXCEPT !.windows = VecSwap(@, a_raw_index, b_raw_index)]

(* ------------------------------ Window geometry ------------------------ *)
Size(width, height) == [width |-> width, height |-> height]
Max(a, b) == IF a >= b THEN a ELSE b
Min(a, b) == IF a <= b THEN a ELSE b

\* (as a slip would have it: the lower bounds are forgotten)
set_size_no_min(g, size) ==
  [g EXCEPT !.size = Size(Min(size.width, g.max_width), Min(size.height, g.max_height))]

\* set_size clamps its own copy of the requested size and caches it
set_size(g, size) ==
  [g EXCEPT !.size = Size(Max(Min(size.width, g.max_width), g.min_width),
                          Max(Min(size.height, g.max_height), g.min_height))]

\* resize caches the clamped size, then hands the compositor the size it was
\* called with: set_size took `size` by value, so the caller's copy is as requested
resize(g, size) == [set_size(g, size) EXCEPT !.issued = Some(size)]

(* ------------------------------ state ---------------------------------- *)
Dims == 0..MaxDim

\* the kinds of window the compositor hands over
WindowInfos ==
  { [name |-> "app", has_parent |-> FALSE, type |-> "normal", state |-> "restored"],
    [name |-> "app", has_parent |-> FALSE, type |-> "freestyle", state |-> "restored"],
    [name |-> "app", has_parent |-> TRUE, type |-> "dialog", state |-> "restored"],
    [name |-> "Ulauncher window title", has_parent |-> FALSE, type |-> "normal",
     state |-> "restored"] }

\* WindowSpec opens a tiled application window or a dialog of one
PlainInfos == {i \in WindowInfos : i.name = "app" /\ i.type \in {"normal", "dialog"}}
\* a tiled application window
AppInfo == [name |-> "app", has_parent |-> FALSE, type |-> "normal", state |-> "restored"]

NoPre ==
  [workspace |-> 0, windows |-> <<>>, active_window |-> None, tiled |-> <<>>,
   wm_active |-> None, allowed |-> TRUE]

\* a workspace as the call finds it: its members, active window, tiled members
PreOf(m, workspace_id) ==
  IF workspace_id \in DOMAIN m.workspaces /\ ~TiledAborts(m.workspaces[workspace_id], m)
  THEN [workspace |-> workspace_id,
        windows |-> m.workspaces[workspace_id].windows,
        active_window |-> m.workspaces[workspace_id].active_window,
        tiled |-> get_tiled_windows(m.workspaces[workspace_id], m),
        wm_active |-> m.active_window,
        allowed |-> TRUE]
  ELSE [NoPre EXCEPT !.wm_active = m.active_window]

\* ... and what the input inhibitor answers (is_allowed) when the call asks it
Asking(pre, allowed) == [pre EXCEPT !.allowed = allowed]

PreOfWindow(m, w) == IF w \in DOMAIN m.windows THEN PreOf(m, m.windows[w].workspace) ELSE NoPre

\* of a call that aborted only the abort is seen
Call(op, arg, r, pre) ==
  IF r.ret = "panic"
  THEN [op |-> op, arg |-> 0, ret |-> "panic", id |-> None, requests |-> <<>>,
        pre |-> NoPre]
  ELSE [op |-> op, arg |-> arg, ret |-> r.ret, id |-> r.id, requests |-> r.requests,
        pre |-> pre]

CallNew ==
  [op |-> "new", arg |-> 0, ret |-> "unit", id |-> None, requests |-> <<>>, pre |-> NoPre]

\* no id handed out yet
NoIds == [window |-> <<>>, workspace |-> <<>>, monitor |-> <<>>]

\* the keys a call added to a table, in key order
RECURSIVE KeysInOrder(_)
KeysInOrder(S) ==
  IF S = {} THEN <<>>
  ELSE LET k == CHOOSE x \in S : \A y \in S : x <= y
       IN  <<k>> \o KeysInOrder(S \ {k})
Inserted(before, after) == KeysInOrder(DOMAIN after \ DOMAIN before)

WindowManager_new ==
  [monitors |-> EmptyMap, windows |-> EmptyMap, workspaces |-> EmptyMap,
   monitor_id_generator |-> IdGenerator_new,
   window_id_generator |-> IdGenerator_new,
   workspace_id_generator |-> IdGenerator_new,
   gesture |-> GestureNone, active_window |-> None, active_workspace |-> 0]

\* a new Window (size 0 x 0) with the bounds the compositor reports for it, and
\* the size the caller is about to ask for
GeoNew(min_width, max_width, min_height, max_height, requested) ==
  [min_width |-> min_width, max_width |-> max_width,
   min_height |-> min_height, max_height |-> max_height,
   size |-> Size(0, 0), issued |-> None, last |-> "new", requested |-> requested]

Init ==
  /\ wm = WindowManager_new
  /\ call = CallNew
  /\ geo = GeoNew(0, MaxDim, 0, MaxDim, Size(0, 0))
  /\ issued = NoIds

\* an abort ends the program
Running == call.ret # "panic"

\* the call's result becomes the manager, and is what is seen of the call;
\* windows and monitors are the ids that Window::new and Monitor::new drew for
\* the call, the workspace ids drawn are those of the workspaces it inserted
ApplyIssuing(op, arg, result, pre, windows, monitors) ==
  \E r \in {result} :
    /\ wm' = r.wm
    /\ call' = Call(op, arg, r, pre)
    /\ issued' = [window |-> issued.window \o windows,
                  workspace |-> issued.workspace \o Inserted(wm.workspaces, r.wm.workspaces),
                  monitor |-> issued.monitor \o monitors]
    /\ UNCHANGED geo

Apply(op, arg, result, pre) == ApplyIssuing(op, arg, result, pre, <<>>, <<>>)

(* ------------------------------ actions -------------------------------- *)
GetOrCreateUnusedWorkspace ==
  /\ Running
  /\ Apply("get_or_create_unused_workspace", 0, get_or_create_unused_workspace(wm), NoPre)

\* a monitor is plugged in: it takes the spare workspace
AddMonitor ==
  /\ Running
  /\ LET r == get_or_create_unused_workspace(wm)
         n == Monitor_new(r.wm.monitor_id_generator, Unwrap(r.id))
         m1 == [r.wm EXCEPT !.monitor_id_generator = n.gen,
                            !.monitors = MapInsert(@, n.monitor.id, n.monitor),
                            !.workspaces[Unwrap(r.id)].on_monitor = Some(n.monitor.id)]
     IN  ApplyIssuing("add_monitor", n.monitor.id, Result(m1, "unit", None), NoPre,
                      <<>>, <<n.monitor.id>>)

AddWindow(workspace_id, info, allowed) ==
  /\ Running
  /\ LET n == Window_new(wm.window_id_generator, workspace_id, info)
         m1 == [wm EXCEPT !.window_id_generator = n.gen]
     IN  ApplyIssuing("add_window", n.window.id, add_window(m1, n.window, allowed),
                      Asking(PreOf(wm, workspace_id), allowed), <<n.window.id>>, <<>>)

DeleteWindow(w) ==
  /\ Running
  /\ Apply("delete_window", w, delete_window(wm, w), PreOfWindow(wm, w))

ActivateWindow(w) ==
  /\ Running
  /\ Apply("activate_window", w, activate_window(wm, w), NoPre)

RemoveWindowFromWorkspace(w) ==
  /\ Running
  /\ Apply("remove_window_from_workspace", w, remove_window_from_workspace(wm, w),
           PreOfWindow(wm, w))

FocusWindow(target, allowed) ==
  /\ Running
  /\ Apply("focus_window", IF IsSome(target) THEN Unwrap(target) ELSE 0,
           focus_window(wm, target, allowed), Asking(NoPre, allowed))

SwapWindows(workspace_id, a, b) ==
  /\ Running
  /\ LET workspace == wm.workspaces[workspace_id]
     IN  Apply("swap_windows", a,
               IF SwapAborts(workspace, a, b) THEN Panic(wm)
               ELSE Result([wm EXCEPT !.workspaces[workspace_id] =
                                         swap_windows(workspace, a, b)], "unit", None),
               NoPre)

\* the compositor changes a window's state (fullscreen, attached, back)
SetWindowState(w, state) ==
  /\ Running
  /\ wm.windows[w].info.state # state
  /\ Apply("set_window_state", w,
           Result([wm EXCEPT !.windows[w].info.state = state], "unit", None),
           PreOfWindow(wm, w))

\* pointer press over a window starts a gesture; release ends it
StartGesture(kind, w) ==
  /\ Running
  /\ wm.gesture = GestureNone
  /\ Apply("start_gesture", w, Result([wm EXCEPT !.gesture = GestureOn(kind, w)], "unit", None),
           NoPre)

EndGesture ==
  /\ Running
  /\ wm.gesture # GestureNone
  /\ Apply("end_gesture", 0, Result([wm EXCEPT !.gesture = GestureNone], "unit", None), NoPre)

\* the calls that take ids take them from the tables
WindowCalls ==
  \/ \E w \in DOMAIN wm.windows : DeleteWindow(w)
  \/ \E w \in DOMAIN wm.windows : ActivateWindow(w)
  \/ \E w \in DOMAIN wm.windows : RemoveWindowFromWorkspace(w)
  \/ \E target \in {None} \cup {Some(w) : w \in DOMAIN wm.windows}, allowed \in BOOLEAN :
       FocusWindow(target, allowed)
  \/ \E workspace_id \in DOMAIN wm.workspaces :
       \E a \in DOMAIN wm.windows, b \in DOMAIN wm.windows : SwapWindows(workspace_id, a, b)

\* the ids a call would issue stay within the bounds
WorkspacesFit(m) == m.workspace_id_generator <= MaxWorkspaces + 1

BoundedGetOrCreateUnusedWorkspace ==
  /\ WorkspacesFit(get_or_create_unused_workspace(wm).wm)
  /\ GetOrCreateUnusedWorkspace

BoundedAddMonitor ==
  /\ wm.monitor_id_generator <= MaxMonitors
  /\ WorkspacesFit(get_or_create_unused_workspace(wm).wm)
  /\ AddMonitor

(* The whole manager: monitors, spare workspaces, windows, gestures.        *)
Next ==
  \/ BoundedGetOrCreateUnusedWorkspace
  \/ BoundedAddMonitor
  \/ /\ wm.window_id_generator <= MaxOpen
     /\ \E workspace_id \in DOMAIN wm.workspaces, info \in WindowInfos, allowed \in BOOLEAN :
          AddWindow(workspace_id, info, allowed)
  \/ WindowCalls
  \/ \E w \in DOMAIN wm.windows, state \in WindowStates : SetWindowState(w, state)
  \/ \E kind \in {"Resize", "Move"}, w \in DOMAIN wm.windows : StartGesture(kind, w)
  \/ EndGesture

Spec == Init /\ [][Next]_vars

(* Windows in their workspaces: the window calls on up to max_windows      *)
(* windows. No monitor attaches here, so the first call of                  *)
(* get_or_create_unused_workspace creates the workspaces and later calls    *)
(* would find two spare ones and change nothing.                            *)
WindowsNext(max_windows) ==
  \/ UnusedWorkspaces(wm) = {} /\ GetOrCreateUnusedWorkspace
  \/ /\ wm.window_id_generator <= max_windows
     /\ \E workspace_id \in DOMAIN wm.workspaces, info \in PlainInfos, allowed \in BOOLEAN :
          AddWindow(workspace_id, info, allowed)
  \/ WindowCalls

WindowNext == WindowsNext(MaxWindows)

WindowSpec == Init /\ [][WindowNext]_vars

PlacementNext == WindowsNext(MaxPlaced)

PlacementSpec == Init /\ [][PlacementNext]_vars

(* Monitors taking workspaces, and the spare workspace kept for the next.   *)
ReserveNext ==
  \/ BoundedGetOrCreateUnusedWorkspace
  \/ BoundedAddMonitor
  \/ /\ wm.window_id_generator <= MaxOpen
     /\ \E workspace_id \in DOMAIN wm.workspaces, info \in PlainInfos, allowed \in BOOLEAN :
          AddWindow(workspace_id, info, allowed)
  \/ WindowCalls

ReserveSpec == Init /\ [][ReserveNext]_vars

(* Windows of every kind changing state (fullscreen, attached, restored)   *)
(* while they are members of a workspace.                                   *)
TilingNext ==
  \/ UnusedWorkspaces(wm) = {} /\ GetOrCreateUnusedWorkspace
  \/ /\ wm.window_id_generator <= MaxWindows
     /\ \E workspace_id \in DOMAIN wm.workspaces, info \in WindowInfos, allowed \in BOOLEAN :
          AddWindow(workspace_id, info, allowed)
  \/ \E w \in DOMAIN wm.windows, state \in WindowStates : SetWindowState(w, state)
  \/ \E w \in DOMAIN wm.windows : DeleteWindow(w)

TilingSpec == Init /\ [][TilingNext]_vars

(* Entities created and deleted: every id any of the three generators      *)
(* hands out, with windows deleted in between.                              *)
IdNext ==
  \/ BoundedGetOrCreateUnusedWorkspace
  \/ BoundedAddMonitor
  \/ /\ wm.window_id_generator <= MaxWindows
     /\ \E workspace_id \in DOMAIN wm.workspaces, info \in PlainInfos, allowed \in BOOLEAN :
          AddWindow(workspace_id, info, allowed)
  \/ \E w \in DOMAIN wm.windows : DeleteWindow(w)

IdSpec == Init /\ [][IdNext]_vars

(* swap_windows on a workspace whose member list is drawn at the start:     *)
(* any order of any of the windows 1..MaxMembers, each listed once.          *)
MemberLists ==
  {v \in UNION {[1..n -> 1..MaxMembers] : n \in 0..MaxMembers} :
     \A i \in DOMAIN v, j \in DOMAIN v : v[i] = v[j] => i = j}

SwapInit ==
  /\ call = CallNew
  /\ geo = GeoNew(0, MaxDim, 0, MaxDim, Size(0, 0))
  /\ issued = [window |-> [n \in 1..MaxMembers |-> n], workspace |-> <<1, 2>>,
               monitor |-> <<>>]
  /\ \E v \in MemberLists :
       wm = [get_or_create_unused_workspace(WindowManager_new).wm EXCEPT
               !.window_id_generator = MaxMembers + 1,
               !.windows = [w \in Elems(v) |-> [id |-> w, workspace |-> 1, info |-> AppInfo]],
               !.workspaces[1].windows = v]

SwapNext == \E a \in Elems(wm.workspaces[1].windows), b \in Elems(wm.workspaces[1].windows) :
              SwapWindows(1, a, b)

SwapSpec == SwapInit /\ [][SwapNext]_vars

(* The lookups, on a manager whose tables and stored ids are drawn at the    *)
(* start: every field of the manager is public, so a stored id may name an  *)
(* entity that is not in its table.                                         *)
StoredIds == 1..MaxStored

GetWindow(window_id) ==
  /\ Running
  /\ Apply("get_window", window_id, get_window(wm, window_id), NoPre)

GetWorkspace(workspace_id) ==
  /\ Running
  /\ Apply("get_workspace", workspace_id, get_workspace(wm, workspace_id), NoPre)

MonitorByWorkspace(workspace_id) ==
  /\ Running
  /\ Apply("monitor_by_workspace", workspace_id, monitor_by_workspace(wm, workspace_id), NoPre)

MonitorByWindow(window_id) ==
  /\ Running
  /\ Apply("monitor_by_window", window_id, monitor_by_window(wm, window_id), NoPre)

ActiveWindow ==
  /\ Running
  /\ Apply("active_window", 0, active_window(wm), NoPre)

ActiveWorkspace ==
  /\ Running
  /\ Apply("active_workspace", 0, active_workspace(wm), NoPre)

LookupInit ==
  /\ call = CallNew
  /\ geo = GeoNew(0, MaxDim, 0, MaxDim, Size(0, 0))
  /\ issued = NoIds
  /\ \E monitor_ids \in SUBSET StoredIds, workspace_ids \in SUBSET StoredIds,
        window_ids \in SUBSET StoredIds :
       \E monitors \in [monitor_ids -> StoredIds],
          on_monitor \in [workspace_ids -> {None} \cup {Some(k) : k \in StoredIds}],
          windows \in [window_ids -> StoredIds],
          focused \in {None} \cup {Some(k) : k \in StoredIds},
          workspace \in StoredIds :
         wm = [WindowManager_new EXCEPT
                 !.monitor_id_generator = MaxStored + 1,
                 !.window_id_generator = MaxStored + 1,
                 !.workspace_id_generator = MaxStored + 1,
                 !.monitors = [k \in monitor_ids |-> [id |-> k, workspace |-> monitors[k]]],
                 !.workspaces =
                   [k \in workspace_ids |->
                      [id |-> k, on_monitor |-> on_monitor[k],
                       windows |-> KeysInOrder({w \in window_ids : windows[w] = k}),
                       active_window |-> None]],
                 !.windows =
                   [w \in window_ids |-> [id |-> w, workspace |-> windows[w], info |-> AppInfo]],
                 !.active_window = focused,
                 !.active_workspace = workspace]

LookupNext ==
  \/ \E window_id \in StoredIds : GetWindow(window_id)
  \/ \E workspace_id \in StoredIds : GetWorkspace(workspace_id)
  \/ \E workspace_id \in StoredIds : MonitorByWorkspace(workspace_id)
  \/ \E window_id \in StoredIds : MonitorByWindow(window_id)
  \/ ActiveWindow
  \/ ActiveWorkspace

LookupSpec == LookupInit /\ [][LookupNext]_vars

(* One window's size: the compositor's bounds and the requested size are    *)
(* drawn at the start, set_size and resize are applied to them.             *)
SetSize ==
  /\ geo' = [set_size(geo, geo.requested) EXCEPT !.last = "set_size"]
  /\ UNCHANGED <<wm, call, issued>>

Resize ==
  /\ geo' = [resize(geo, geo.requested) EXCEPT !.last = "resize"]
  /\ UNCHANGED <<wm, call, issued>>

SizeInit ==
  /\ wm = WindowManager_new
  /\ call = CallNew
  /\ issued = NoIds
  /\ \E min_width \in Dims, max_width \in Dims, min_height \in Dims, max_height \in Dims,
        width \in Dims, height \in Dims :
       geo = GeoNew(min_width, max_width, min_height, max_height, Size(width, height))

SizeNext == SetSize \/ Resize

SizeSpec == SizeInit /\ [][SizeNext]_vars

(* ============================== claims ================================= *)
Members(k) == Elems(wm.workspaces[k].windows)
Within(x, lo, hi) == lo <= x /\ x <= hi

\* the last call removed window call.arg from its workspace call.pre.workspace
Removed ==
  \/ call.op = "remove_window_from_workspace" /\ call.ret = "Ok"
  \/ call.op = "delete_window" /\ call.ret = "unit"
\* ... and that window was the workspace's active window
RemovedActive == Removed /\ call.pre.active_window = Some(call.arg)
ActiveAfterRemoval == wm.workspaces[call.pre.workspace].active_window

\* C1: every workspace's active_window is None or one of its members.
\* (WindowSpec: fails after remove_window_from_workspace(w); activate_window(w))
C1_ActiveWindowIsMember ==
  \A k \in DOMAIN wm.workspaces :
    \/ wm.workspaces[k].active_window = None
    \/ Unwrap(wm.workspaces[k].active_window) \in Members(k)

\* C2: every window of the table names an existing workspace that lists it.
\* (WindowSpec: fails after remove_window_from_workspace(w) on its own)
C2_WindowListedInItsWorkspace ==
  \A w \in DOMAIN wm.windows :
    /\ wm.windows[w].workspace \in DOMAIN wm.workspaces
    /\ w \in Members(wm.windows[w].workspace)

\* C3: get_or_create_unused_workspace returns an existing workspace with no
\* monitor, with a further workspace without monitor besides it; so when a
\* monitor takes the returned workspace a spare one is still there.
C3_SpareWorkspaceKept ==
  /\ call.op = "get_or_create_unused_workspace" =>
       /\ call.ret = "id"
       /\ Unwrap(call.id) \in UnusedWorkspaces(wm)
       /\ UnusedWorkspaces(wm) \ {Unwrap(call.id)} # {}
  /\ call.op = "add_monitor" => UnusedWorkspaces(wm) # {}

\* the call found exactly one spare workspace (2, workspace 1 being on the
\* monitor), returned it and created workspace 3 as the new reserve
C3_Witness ==
  /\ call.op = "get_or_create_unused_workspace"
  /\ call.id = Some(2)
  /\ DOMAIN wm.workspaces = {1, 2, 3}
  /\ wm.workspaces[1].on_monitor = Some(1)

\* C4: removing the active window w, tiled, at index k of the tiled members T
\* as they were before: the workspace's active window becomes T[k-1] if k > 0,
\* T[1] if k = 0 and T has two or more elements, None if w was the only one.
C4_TiledReplacement ==
  (RemovedActive /\ VecFind(call.pre.tiled, call.arg) # None) =>
    LET T == call.pre.tiled
        k == Unwrap(VecFind(T, call.arg))
    IN  ActiveAfterRemoval =
          IF k > 0 THEN Some(T[k])
          ELSE IF Len(T) >= 2 THEN Some(T[2])
          ELSE None

\* the first of two or more tiled members was active and was removed
C4_Witness ==
  /\ RemovedActive
  /\ VecFind(call.pre.tiled, call.arg) = Some(0)
  /\ Len(call.pre.tiled) >= 2
  /\ ActiveAfterRemoval = Some(call.pre.tiled[2])

C6_PlacedAfterWorkspaceActive ==
  (/\ call.op = "add_window" /\ call.ret = "unit"
   /\ call.pre.active_window # None
   /\ VecFind(call.pre.windows, Unwrap(call.pre.active_window)) # None) =>
    wm.workspaces[call.pre.workspace].windows =
      VecInsert(call.pre.windows,
                Unwrap(VecFind(call.pre.windows, Unwrap(call.pre.active_window))) + 1,
                call.arg)

\* C7: resize issues to the compositor the clamped size: the size sent is the
\* cached size, each dimension within its bounds. Stated for bounds with
\* min <= max, where the clamped size is within them.
\* (SizeSpec: fails, the size as requested is sent)
C7_ResizeIssuesClampedSize ==
  (/\ geo.last = "resize"
   /\ geo.min_width <= geo.max_width
   /\ geo.min_height <= geo.max_height) =>
    /\ geo.issued = Some(geo.size)
    /\ Within(Unwrap(geo.issued).width, geo.min_width, geo.max_width)
    /\ Within(Unwrap(geo.issued).height, geo.min_height, geo.max_height)

\* C8 as claimed: after set_size the cached width is within
\* [min_width, max_width] and the cached height within [min_height, max_height],
\* whatever bounds the compositor reports, and a dimension already inside is
\* stored as requested.
\* (SizeSpec: fails when the compositor reports min > max)
C8_SizeWithinBounds ==
  geo.last # "new" =>
    /\ Within(geo.size.width, geo.min_width, geo.max_width)
    /\ Within(geo.size.height, geo.min_height, geo.max_height)
    /\ Within(geo.requested.width, geo.min_width, geo.max_width) =>
         geo.size.width = geo.requested.width
    /\ Within(geo.requested.height, geo.min_height, geo.max_height) =>
         geo.size.height = geo.requested.height

ClampedDim(cached, requested, lo, hi) ==
  /\ lo <= hi => Within(cached, lo, hi)
  /\ Within(requested, lo, hi) => cached = requested
  /\ lo > hi => cached = lo

\* C8 as amended: after set_size, for each dimension on its own: when
\* min <= max the cached value is within [min, max]; a requested value inside
\* is stored as it is; when min > max the cached value is min.
C8_SizeClamped ==
  geo.last # "new" =>
    /\ ClampedDim(geo.size.width, geo.requested.width, geo.min_width, geo.max_width)
    /\ ClampedDim(geo.size.height, geo.requested.height, geo.min_height, geo.max_height)

\* set_size cut the width down to max_width and raised the height to min_height
C8_Witness ==
  /\ geo.last = "set_size"
  /\ geo.min_width <= geo.max_width /\ geo.max_width < geo.requested.width
  /\ geo.requested.height < geo.min_height /\ geo.min_height <= geo.max_height
  /\ geo.size = Size(geo.max_width, geo.min_height)

\* C9: after delete_window(id) of a window of the table that its workspace
\* lists, id is in no table, no member list, no workspace's active_window, and
\* the manager's active_window is None if it was id.
C9_DeletedEverywhere ==
  (call.op = "delete_window" /\ call.ret = "unit") =>
    /\ call.arg \notin DOMAIN wm.windows
    /\ \A k \in DOMAIN wm.workspaces :
         /\ call.arg \notin Members(k)
         /\ wm.workspaces[k].active_window # Some(call.arg)
    /\ call.pre.wm_active = Some(call.arg) => wm.active_window = None

\* the focused window, active in a workspace of two or more, was deleted
C9_Witness ==
  /\ call.op = "delete_window" /\ call.ret = "unit"
  /\ call.pre.wm_active = Some(call.arg)
  /\ call.pre.active_window = Some(call.arg)
  /\ Len(call.pre.windows) >= 2
  /\ wm.active_window = None

\* C10: the gesture is None or names a window of the window table.
\* (Spec: fails, delete_window leaves the gesture of the deleted window)
C10_GestureWindowLive ==
  wm.gesture = GestureNone \/ wm.gesture.window \in DOMAIN wm.windows

\* C11: a lookup that follows a stored id returns None only when no id is
\* stored; with an id stored that is not in its table it aborts. Said of the
\* three lookups that return an Option: the lookup did not abort and
\* returned None, so no id was stored.
\* (LookupSpec: fails, and_then(.. get ..) gives None for a stored id that
\* is in no table)
C11_AbsentOnlyWhenNothingStored ==
  /\ (call.op = "monitor_by_workspace" /\ call.ret = "None") =>
       wm.workspaces[call.arg].on_monitor = None
  /\ (call.op = "monitor_by_window" /\ call.ret = "None") =>
       wm.workspaces[wm.windows[call.arg].workspace].on_monitor = None
  /\ (call.op = "active_window" /\ call.ret = "None") => wm.active_window = None

\* C12: the n ids a generator has handed out are 1, 2, ..., n in that order,
\* for windows, workspaces and monitors alike; so no id is handed out twice,
\* also not after the window that held it was deleted, and every entity in
\* a table is there under an id that was handed out for its class.
C12_IdsIssuedOnce ==
  /\ \A class \in DOMAIN issued :
       \A n \in 1..Len(issued[class]) : issued[class][n] = n
  /\ DOMAIN wm.windows \subseteq Elems(issued.window)
  /\ DOMAIN wm.workspaces \subseteq Elems(issued.workspace)
  /\ DOMAIN wm.monitors \subseteq Elems(issued.monitor)
  /\ \A w \in DOMAIN wm.windows : wm.windows[w].id = w

\* window 1 was deleted, the next window got id 2; three workspaces and a
\* monitor have been created
C12_Witness ==
  /\ call.op = "add_window" /\ call.arg = 2
  /\ issued.window = <<1, 2>>
  /\ DOMAIN wm.windows = {2}
  /\ issued.workspace = <<1, 2, 3>>
  /\ issued.monitor = <<1>>

\* the place of member x in the list v
PlaceOf(v, x) == CHOOSE p \in 1..Len(v) : v[p] = x

\* C13: for every workspace and all members a and b of it (a = b included):
\* swap_windows(a, b) puts b where a was and a where b was, leaves every
\* other place and the set of members as they were, and applied a second
\* time gives back the list it started from.
C13_SwapExchangesAndUndoes ==
  \A k \in DOMAIN wm.workspaces :
    \A a \in Members(k), b \in Members(k) :
      LET v == wm.workspaces[k].windows
          once == swap_windows(wm.workspaces[k], a, b)
          twice == swap_windows(once, a, b)
      IN  /\ ~SwapAborts(wm.workspaces[k], a, b)
          /\ Len(once.windows) = Len(v)
          /\ once.windows[PlaceOf(v, a)] = b
          /\ once.windows[PlaceOf(v, b)] = a
          /\ \A p \in 1..Len(v) :
               p \notin {PlaceOf(v, a), PlaceOf(v, b)} => once.windows[p] = v[p]
          /\ Elems(once.windows) = Elems(v)
          /\ ~SwapAborts(once, a, b)
          /\ twice.windows = v
          /\ twice = wm.workspaces[k]

\* swap_windows(1, 3) was called on three or more members and left 3 first
\* and 1 last, with the member between them in its place
C13_Witness ==
  /\ call.op = "swap_windows" /\ call.ret = "unit" /\ call.arg = 1
  /\ Len(wm.workspaces[1].windows) >= 3
  /\ wm.workspaces[1].windows[1] = 3
  /\ wm.workspaces[1].windows[2] = 2
  /\ wm.workspaces[1].windows[Len(wm.workspaces[1].windows)] = 1

\* C14: whenever the manager's active_window is Some(w), w is in the window
\* table and the manager's active_workspace is w's workspace. Stated for a
\* manager whose active_workspace names one of its workspaces.
\* (WindowSpec: fails, focus_window leaves active_workspace as it was)
C14_ActiveWorkspaceHoldsActiveWindow ==
  (IsSome(wm.active_window) /\ wm.active_workspace \in DOMAIN wm.workspaces) =>
    /\ Unwrap(wm.active_window) \in DOMAIN wm.windows
    /\ wm.active_workspace = wm.windows[Unwrap(wm.active_window)].workspace

AddedAllowed == call'.op = "add_window" /\ call'.ret = "unit" /\ call'.pre.allowed

\* C16: add_window(w) with the input inhibitor allowing w. If w has no parent:
\* afterwards w is its workspace's active_window, the manager's active_window
\* is w and the manager's active_workspace is w's workspace. If w has a
\* parent: the manager's active_window and active_workspace and every
\* workspace's active_window are as they were before the call.
C16_AddWindowFocus ==
  [][AddedAllowed =>
       LET w == call'.arg
           workspace_id == wm'.windows[w].workspace
       IN  IF ~wm'.windows[w].info.has_parent
           THEN /\ wm'.workspaces[workspace_id].active_window = Some(w)
                /\ wm'.active_window = Some(w)
                /\ wm'.active_workspace = workspace_id
           ELSE /\ wm'.active_window = wm.active_window
                /\ wm'.active_workspace = wm.active_workspace
                /\ DOMAIN wm'.workspaces = DOMAIN wm.workspaces
                /\ \A k \in DOMAIN wm.workspaces :
                     wm'.workspaces[k].active_window = wm.workspaces[k].active_window]_vars

\* a window with a parent was added next to the focused window, which is
\* still the focused one and its workspace's active window
C16_Witness ==
  /\ call.op = "add_window" /\ call.ret = "unit" /\ call.pre.allowed
  /\ wm.windows[call.arg].info.has_parent
  /\ IsSome(wm.active_window) /\ wm.active_window # Some(call.arg)
  /\ wm.workspaces[call.pre.workspace].active_window = wm.active_window
  /\ wm.active_workspace = call.pre.workspace

\* what the compositor reports of member w makes it a tiled window
ReportedTiled(w) ==
  /\ wm.windows[w].info.name # "Ulauncher window title"
  /\ ~wm.windows[w].info.has_parent
  /\ wm.windows[w].info.type \in {"normal", "freestyle"}
  /\ wm.windows[w].info.state \notin {"fullscreen", "attached"}

\* C17: in every state, get_tiled_windows of a workspace is the list of its
\* members that are tiled by what the compositor reports of them at that
\* moment, in member order: a member that is fullscreen now is not in it,
\* whatever an earlier call returned, and a member that has left fullscreen
\* is in it again, at its place among the members.
C17_TiledWindowsLive ==
  \A k \in DOMAIN wm.workspaces :
    LET v == wm.workspaces[k].windows
        T == get_tiled_windows(wm.workspaces[k], wm)
    IN  /\ Elems(T) = {w \in Elems(v) : ReportedTiled(w)}
        /\ \A p \in 1..Len(T), q \in 1..Len(T) :
             p < q => PlaceOf(v, T[p]) < PlaceOf(v, T[q])
        /\ \A w \in Elems(v) : wm.windows[w].info.state = "fullscreen" => w \notin Elems(T)
        /\ (call.op = "set_window_state" /\ call.pre.workspace = k) =>
             LET w == call.arg
                 others(list) == SelectSeq(list, LAMBDA x : x # w)
             IN  /\ others(T) = others(call.pre.tiled)
                 /\ wm.workspaces[k].windows = call.pre.windows

\* the first of two tiled members went fullscreen: it was among the tiled
\* windows before, and now the second member alone is
C17_Witness ==
  /\ call.op = "set_window_state"
  /\ wm.windows[call.arg].info.state = "fullscreen"
  /\ Len(call.pre.tiled) = 2 /\ call.pre.tiled[1] = call.arg
  /\ LET workspace == wm.workspaces[call.pre.workspace]
     IN  /\ workspace.windows = call.pre.tiled
         /\ get_tiled_windows(workspace, wm) = <<call.pre.tiled[2]>>

\* a step that is a call of get_or_create_unused_workspace
GotOrCreated == call'.op = "get_or_create_unused_workspace"
Least(S) == CHOOSE k \in S : \A j \in S : k <= j

\* C18: with u the number of workspaces without monitor before the call,
\* get_or_create_unused_workspace creates max(0, 2 - u) workspaces, each under
\* an id not handed out before, without monitor, members or active window;
\* it returns the first created one when u = 0 and the lowest id among the
\* u found otherwise; every workspace that was there, the windows and the
\* monitors are as before, and with u >= 2 so is the whole manager.
C18_CreatesOnlyTheMissing ==
  [][GotOrCreated =>
       LET found == UnusedWorkspaces(wm)
           u == Cardinality(found)
           created == DOMAIN wm'.workspaces \ DOMAIN wm.workspaces
       IN  /\ Cardinality(created) = (IF u >= 2 THEN 0 ELSE 2 - u)
           /\ \A k \in created :
                /\ k \notin Elems(issued.workspace)
                /\ wm'.workspaces[k] =
                     [id |-> k, on_monitor |-> None, windows |-> <<>>, active_window |-> None]
           /\ call'.ret = "id"
           /\ call'.id = Some(IF u = 0 THEN Least(created) ELSE Least(found))
           /\ DOMAIN wm.workspaces \subseteq DOMAIN wm'.workspaces
           /\ \A k \in DOMAIN wm.workspaces : wm'.workspaces[k] = wm.workspaces[k]
           /\ wm'.windows = wm.windows
           /\ wm'.monitors = wm.monitors
           /\ wm'.active_window = wm.active_window
           /\ wm'.active_workspace = wm.active_workspace
           /\ u >= 2 => wm' = wm]_vars

\* the call found workspaces 2 and 3 without monitor (1 is on the monitor)
\* and returned 2; no workspace 4 was created
C18_Witness ==
  /\ call.op = "get_or_create_unused_workspace"
  /\ call.id = Some(2)
  /\ UnusedWorkspaces(wm) = {2, 3}
  /\ issued.workspace = <<1, 2, 3>>
  /\ wm.workspace_id_generator = 4

\* C19: add_window for a window whose target workspace exists does not
\* abort, whichever workspace holds the manager's active window. Stated for
\* a manager in which every window of the table is listed by its workspace.
\* (WindowSpec: fails, add_window aborts when the manager's active window
\* is a member of another workspace)
C19_AddWindowCompletes ==
  ~(/\ call.op = "add_window"
    /\ call.ret = "panic"
    /\ \A w \in DOMAIN wm.windows :
         /\ wm.windows[w].workspace \in DOMAIN wm.workspaces
         /\ w \in Members(wm.windows[w].workspace))

\* C20: remove_window_from_workspace(id) for a window of the table that its
\* workspace does not list returns Err and leaves the workspace's member list
\* and active_window as they were.
\* (WindowSpec: fails, the active_window of the workspace is replaced before
\* the missing member is noticed)
C20_FailedRemovalChangesNothing ==
  (/\ call.op = "remove_window_from_workspace"
   /\ call.ret # "panic"
   /\ call.pre.workspace # 0
   /\ call.arg \notin Elems(call.pre.windows)) =>
    /\ call.ret = "Err"
    /\ wm.workspaces[call.pre.workspace].windows = call.pre.windows
    /\ wm.workspaces[call.pre.workspace].active_window = call.pre.active_window

====
